---- MODULE Spec2Model ----
(***************************************************************************)
(* Thumbnail-Generator job pipeline: the upload route, the BullMQ queue,   *)
(* the worker (ThumbnailWorker / processThumbnailJob), the queue-event     *)
(* handlers that publish on the Redis bus, and the user's retry / delete   *)
(* endpoints, all acting on the Job and Thumbnail collections.             *)
(*                                                                         *)
(* Every `await` on the store or on Redis is one step; synchronous code    *)
(* that follows an await belongs to the step of that await.                *)
(***************************************************************************)
EXTENDS Integers, Sequences, FiniteSets, TLC

\* ---------------------------------------------------------------- bounds
MaxJobs == 1          \* jobs uploaded in Spec
FifoJobs == 3         \* jobs uploaded in SpecFifo
MaxTimeouts == 1      \* firings of the 5-minute job timer
MaxStoreFaults == 1   \* store operations of the event handlers that throw
MaxUserRetries == 1   \* accepted POST /jobs/:jobId/retry requests
MaxUsers == 2         \* authenticated users
MaxConns == 2         \* Socket.IO connections
RoomJobs == 2         \* jobs uploaded in SpecRooms
MaxClock == 15        \* minutes of wall-clock time in SpecHealth

\* ------------------------------------------------------ program constants
WORKER_MAX_ATTEMPTS == 3
HEALTH_CHECK_MINUTES == 5   \* setInterval(..., 5 * 60 * 1000)
STUCK_MINUTES == 10         \* jobAge > 10 * 60 * 1000

\* ------------------------------------------------------------------ state
VARIABLES
  jobs,          \* Job collection: jobId -> record
  thumbs,        \* Thumbnail collection: set of [id, jobId]
  nextThumb,     \* next fresh Thumbnail _id
  now,           \* wall clock read by `new Date()`
  file,          \* uploaded file of each job: kind and presence on disk
  upl,           \* POST /files request of each job: position and counts read
  queue,         \* BullMQ entry of each job
  addSeq,        \* number of entries added to the queue so far
  isProcessing,  \* ThumbnailWorker.isProcessing
  run,           \* the processor invocation the worker is running
  zombies,       \* processThumbnailJob executions that lost the race to the timer
  nTimeouts,     \* timer firings so far
  hnd,           \* queue-event handler ('completed' / 'failed') of each job
  nFaults,       \* store faults so far
  nRetry,        \* accepted user retries so far
  bus,           \* messages published on the Redis bus, per jobId
  api,           \* the /jobs request being served, and its response
  shut,          \* the worker process: running, closing, after 30 s, exited
  socks,         \* Socket.IO connections: authenticated user and rooms joined
  inbox,         \* jobIds each connection has received a message about
  clock,         \* Date.now(), in minutes since the start
  stamp,         \* BullMQ's job.timestamp and job.processedOn of each entry
  asked          \* jobIds the health check has called job.retry() for

\* What no step of the upload route, the worker or the queue-event handlers
\* writes
health == <<clock, stamp, asked>>

outer == <<api, shut, socks, inbox, health>>

vars == <<jobs, thumbs, nextThumb, now, file, upl, queue, addSeq, isProcessing,
          run, zombies, nTimeouts, hnd, nFaults, nRetry, bus, outer>>

JobIds == DOMAIN jobs

\* ------------------------------------------------------------- Job store
NoJob ==
  [exists |-> FALSE, status |-> "pending", progress |-> 0, error |-> "",
   thumbnails |-> <<>>, startedAt |-> 0, completedAt |-> 0]

\* new Job({status: 'pending', progress: 0, ...}); job.save()
NewJob == [NoJob EXCEPT !.exists = TRUE]

\* job.status = 'queued'; job.save()  -- saves the modified path only
SaveQueued(J, j) ==
  IF J[j].exists THEN [J EXCEPT ![j].status = "queued"] ELSE J

\* Job.findByIdAndUpdate(jobId, {status: 'processing', startedAt: new Date()})
SetProcessing(J, j, t) ==
  IF J[j].exists
    THEN [J EXCEPT ![j].status = "processing", ![j].startedAt = t]
    ELSE J

\* Job.findByIdAndUpdate(jobId, {status: 'completed', progress: 100,
\*                               completedAt: new Date(), $push: {thumbnails}})
SetCompleted(J, j, t, tid) ==
  IF J[j].exists
    THEN [J EXCEPT ![j].status = "completed", ![j].progress = 100,
                   ![j].completedAt = t,
                   ![j].thumbnails = Append(@, tid)]
    ELSE J

\* Job.findByIdAndUpdate(jobId, {status: 'failed', error, completedAt: new Date()})
SetFailed(J, j, err, t) ==
  IF J[j].exists
    THEN [J EXCEPT ![j].status = "failed", ![j].error = err,
                   ![j].completedAt = t]
    ELSE J

\* A forced update that sets the status and the date only: what
\* CompletedFullProgress must tell apart from ForceCompleted
ForceCompletedStatusOnly(J, j, t) ==
  IF J[j].exists
    THEN [J EXCEPT ![j].status = "completed", ![j].completedAt = t]
    ELSE J

\* 'completed' handler: Job.findByIdAndUpdate(jobId, {status: 'completed',
\*                                   progress: 100, completedAt: new Date()})
ForceCompleted(J, j, t) ==
  IF J[j].exists
    THEN [J EXCEPT ![j].status = "completed", ![j].progress = 100,
                   ![j].completedAt = t]
    ELSE J

\* retry endpoint: status pending, progress 0, error/startedAt/completedAt unset
ResetForRetry(J, j) ==
  [J EXCEPT ![j].status = "pending", ![j].progress = 0, ![j].error = "",
            ![j].startedAt = 0, ![j].completedAt = 0]

ThumbsOf(j) == {t \in thumbs : t.jobId = j}

\* ------------------------------------------------------------- Redis bus
\* Per jobId: how many job-active, job-completed and job-failed messages have
\* been published, and the message published last (t: topic, p: its progress
\* field, n: the number of thumbnail URLs it carries).
NoMsg == [t |-> "none", p |-> 0, n |-> 0]
NoBus == [active |-> 0, completed |-> 0, failed |-> 0, last |-> NoMsg]

\* redisPubSub.publish('job-active', {jobId, status: 'processing', progress: 0})
PubActive(B, j) ==
  [B EXCEPT ![j].active = @ + 1,
            ![j].last = [t |-> "active", p |-> 0, n |-> 0]]

\* redisPubSub.publish('job-progress', {jobId, progress: data})
PubProgress(B, j, p) ==
  [B EXCEPT ![j].last = [t |-> "progress", p |-> p, n |-> 0]]

\* redisPubSub.publish('job-completed', {jobId, returnvalue: {thumbnails}, progress: 100})
PubCompleted(B, j, n) ==
  [B EXCEPT ![j].completed = @ + 1,
            ![j].last = [t |-> "completed", p |-> 100, n |-> n]]

\* redisPubSub.publish('job-failed', {jobId, error, status: 'failed', progress: 0})
PubFailed(B, j) ==
  [B EXCEPT ![j].failed = @ + 1,
            ![j].last = [t |-> "failed", p |-> 0, n |-> 0]]

\* ----------------------------------------------------------------- queue
NoEntry ==
  [state |-> "none", priority |-> 0, seq |-> 0, attemptsMade |-> 0,
   failedReason |-> ""]

Waiting == {j \in JobIds : queue[j].state = "waiting"}
Active  == {j \in JobIds : queue[j].state = "active"}

\* BullMQ serves the lowest priority number first, insertion order within one
\* priority
Before(a, b) ==
  \/ queue[a].priority < queue[b].priority
  \/ /\ queue[a].priority = queue[b].priority
     /\ queue[a].seq < queue[b].seq

IsHead(j) == j \in Waiting /\ \A k \in Waiting \ {j} : Before(j, k)

\* ---------------------------------------------------------- initial state
Idle == [job |-> 0, pc |-> "idle", err |-> "", tid |-> 0]
NoFile == [kind |-> "image", onDisk |-> TRUE]
NoUpload == [pc |-> "idle", waiting |-> 0, total |-> 0]
NoHandler == [pc |-> "idle", n |-> 0]

\* Users, and the user whose upload creates job j (Job.userId, never rewritten)
Users == 1..MaxUsers
UserOf(j) == ((j - 1) % MaxUsers) + 1

\* No /jobs request being served, no response sent yet
NoRequest ==
  [pc |-> "idle", op |-> "none", user |-> 0, job |-> 0, resp |-> "none",
   list |-> {}]

\* A connection slot nobody is connected on
Conns == 1..MaxConns
NoSock == [user |-> 0, rooms |-> {}]

\* An entry not added yet: no creation time, never active
NoStamp == [timestamp |-> 0, processedOn |-> 0]

InitN(n) ==
  /\ jobs = [j \in 1..n |-> NoJob]
  /\ thumbs = {}
  /\ nextThumb = 1
  /\ now = 1
  /\ file = [j \in 1..n |-> NoFile]
  /\ upl = [j \in 1..n |-> NoUpload]
  /\ queue = [j \in 1..n |-> NoEntry]
  /\ addSeq = 0
  /\ isProcessing = FALSE
  /\ run = Idle
  /\ zombies = [k \in 1..MaxTimeouts |-> Idle]
  /\ nTimeouts = 0
  /\ hnd = [j \in 1..n |-> NoHandler]
  /\ nFaults = 0
  /\ nRetry = 0
  /\ bus = [j \in 1..n |-> NoBus]
  /\ api = NoRequest
  /\ shut = "running"
  /\ socks = [c \in Conns |-> NoSock]
  /\ inbox = [c \in Conns |-> {}]
  /\ clock = 0
  /\ stamp = [j \in 1..n |-> NoStamp]
  /\ asked = {}

Init == InitN(MaxJobs)

\* ------------------------------------------------- upload route, POST /files
\* Files the upload route can leave behind: an image or a video, still on disk
\* when the worker reads it or removed in the meantime.
Files == [kind : {"image", "video"}, onDisk : BOOLEAN]
GoodFiles == {f \in Files : f.onDisk /\ f.kind = "image"}

\* fileDoc.save(); new Job({status: 'pending', progress: 0}); job.save()
CreateJob(j, f) ==
  /\ upl[j].pc = "idle"
  /\ \A k \in JobIds : k < j => upl[k].pc # "idle"
  /\ file' = [file EXCEPT ![j] = f]
  /\ jobs' = [jobs EXCEPT ![j] = NewJob]
  /\ upl' = [upl EXCEPT ![j].pc = "getWaiting"]
  /\ UNCHANGED <<outer, thumbs, nextThumb, now, queue, addSeq, isProcessing, run,
                 zombies, nTimeouts, hnd, nFaults, nRetry, bus>>

\* addThumbnailJob: waitingJobs = await thumbnailQueue.getJobs(['waiting'])
GetWaiting(j) ==
  /\ upl[j].pc = "getWaiting"
  /\ upl' = [upl EXCEPT ![j].pc = "getActive",
                        ![j].waiting = Cardinality(Waiting)]
  /\ UNCHANGED <<outer, jobs, thumbs, nextThumb, now, file, queue, addSeq,
                 isProcessing, run, zombies, nTimeouts, hnd, nFaults, nRetry,
                 bus>>

\* addThumbnailJob: activeJobs = await thumbnailQueue.getJobs(['active']);
\* totalJobs = waitingJobs.length + activeJobs.length
GetActive(j) ==
  /\ upl[j].pc = "getActive"
  /\ upl' = [upl EXCEPT ![j].pc = "add",
                        ![j].total = upl[j].waiting + Cardinality(Active)]
  /\ UNCHANGED <<outer, jobs, thumbs, nextThumb, now, file, queue, addSeq,
                 isProcessing, run, zombies, nTimeouts, hnd, nFaults, nRetry,
                 bus>>

\* addThumbnailJob: thumbnailQueue.add(..., {jobId, priority: totalJobs})
QueueAdd(j) ==
  /\ upl[j].pc = "add"
  /\ queue' = [queue EXCEPT ![j] = [NoEntry EXCEPT !.state = "waiting",
                                                   !.priority = upl[j].total,
                                                   !.seq = addSeq + 1]]
  /\ addSeq' = addSeq + 1
  /\ upl' = [upl EXCEPT ![j].pc = "save"]
  /\ stamp' = [stamp EXCEPT ![j].timestamp = clock]
  /\ UNCHANGED <<api, shut, socks, inbox, clock, asked, jobs, thumbs, nextThumb, now, file, isProcessing, run,
                 zombies, nTimeouts, hnd, nFaults, nRetry, bus>>

\* job.status = 'queued'; await job.save()
UploadSaveQueued(j) ==
  /\ upl[j].pc = "save"
  /\ jobs' = SaveQueued(jobs, j)
  /\ upl' = [upl EXCEPT ![j].pc = "done"]
  /\ UNCHANGED <<outer, thumbs, nextThumb, now, file, queue, addSeq, isProcessing,
                 run, zombies, nTimeouts, hnd, nFaults, nRetry, bus>>

\* ------------------------------------------------------ processThumbnailJob
\* Positions of one execution of processThumbnailJob: each names the await it
\* is about to perform.
\*   p20 wproc p30 p40 (img80 | vid60 vid80) p90 tsave wcomp p100, and fail1 for
\*   the update in its catch block.
ProcPcs ==
  {"p20", "wproc", "p30", "p40", "img80", "vid60", "vid80", "p90", "tsave",
   "wcomp", "p100", "fail1"}
MediaPcs == {"img80", "vid60", "vid80"}

Throw(e, err) == [e EXCEPT !.pc = "fail1", !.err = err]

\* The execution after its next await; "returned" and "thrown" are its two ends.
ProcNext(e) ==
  LET f == file[e.job] IN
  CASE e.pc = "p20"   -> [e EXCEPT !.pc = "wproc"]
    [] e.pc = "wproc" -> [e EXCEPT !.pc = "p30"]
    [] e.pc = "p30"   -> [e EXCEPT !.pc = "p40"]
    [] e.pc = "p40"   -> [e EXCEPT !.pc = IF f.kind = "image" THEN "img80"
                                                             ELSE "vid60"]
       \* processImageThumbnail: access(inputPath), sharp, updateProgress(80)
    [] e.pc = "img80" -> IF f.onDisk THEN [e EXCEPT !.pc = "p90"]
                                     ELSE Throw(e, "notfound")
       \* processVideoThumbnail: extractVideoFrame, updateProgress(60)
    [] e.pc = "vid60" -> IF f.onDisk THEN [e EXCEPT !.pc = "vid80"]
                                     ELSE Throw(e, "media")
    [] e.pc = "vid80" -> [e EXCEPT !.pc = "p90"]
    [] e.pc = "p90"   -> [e EXCEPT !.pc = "tsave"]
    [] e.pc = "tsave" -> [e EXCEPT !.pc = "wcomp", !.tid = nextThumb]
    [] e.pc = "wcomp" -> [e EXCEPT !.pc = "p100"]
    [] e.pc = "p100"  -> [e EXCEPT !.pc = "returned"]
    [] e.pc = "fail1" -> [e EXCEPT !.pc = "thrown"]

\* The progress value the await at e.pc reports through updateProgress, 0 if none
ProcProgress(e) ==
  LET f == file[e.job] IN
  CASE e.pc = "p20"  -> 20
    [] e.pc = "p30"  -> 30
    [] e.pc = "p40"  -> 40
    [] e.pc = "img80" -> IF f.onDisk THEN 80 ELSE 0
    [] e.pc = "vid60" -> IF f.onDisk THEN 60 ELSE 0
    [] e.pc = "vid80" -> 80
    [] e.pc = "p90"  -> 90
    [] e.pc = "p100" -> 100
    [] OTHER -> 0

\* The Job collection after the await at e.pc
ProcJobs(e) ==
  CASE e.pc = "wproc" -> SetProcessing(jobs, e.job, now)
    [] e.pc = "wcomp" -> SetCompleted(jobs, e.job, now, e.tid)
    [] e.pc = "fail1" -> SetFailed(jobs, e.job, e.err, now)
    [] OTHER -> jobs

\* One await of processThumbnailJob, for the execution e
ProcStep(e) ==
  /\ e.pc \in ProcPcs
  /\ jobs' = ProcJobs(e)
  /\ now' = IF e.pc \in {"wproc", "wcomp", "fail1"} THEN now + 1 ELSE now
  /\ thumbs' = IF e.pc = "tsave"
                 THEN thumbs \cup {[id |-> nextThumb, jobId |-> e.job]}
                 ELSE thumbs
  /\ nextThumb' = IF e.pc = "tsave" THEN nextThumb + 1 ELSE nextThumb
  /\ bus' = IF ProcProgress(e) > 0 THEN PubProgress(bus, e.job, ProcProgress(e))
                                   ELSE bus

\* ------------------------------------------------------------------ worker
\* The worker process has not exited: its timers, its abandoned promises and
\* the queue-event listeners it set up (start: setupQueueEventListeners) run
Alive == shut # "exited"

\* BullMQ Worker, concurrency 1: the next entry becomes active, the queue
\* emits 'active' and the 'active' listener publishes job-active. A worker
\* that is closing fetches nothing.
FetchNext(j) ==
  /\ run.pc = "idle"
  /\ shut = "running"
  /\ IsHead(j)
  /\ queue' = [queue EXCEPT ![j].state = "active"]
  /\ bus' = PubActive(bus, j)
  /\ run' = [Idle EXCEPT !.job = j, !.pc = "lock"]
  /\ stamp' = [stamp EXCEPT ![j].processedOn = clock]
  /\ UNCHANGED <<api, shut, socks, inbox, clock, asked, jobs, thumbs, nextThumb, now, file, upl, addSeq, isProcessing,
                 zombies, nTimeouts, hnd, nFaults, nRetry>>

\* while (this.isProcessing) wait; this.isProcessing = true
AcquireLock ==
  /\ run.pc = "lock"
  /\ ~isProcessing
  /\ isProcessing' = TRUE
  /\ run' = [run EXCEPT !.pc = "p10"]
  /\ UNCHANGED <<outer, jobs, thumbs, nextThumb, now, file, upl, queue, addSeq,
                 zombies, nTimeouts, hnd, nFaults, nRetry, bus>>

\* processJob: await job.updateProgress(10), then the race starts
UpdateProgress10 ==
  /\ run.pc = "p10"
  /\ bus' = PubProgress(bus, run.job, 10)
  /\ run' = [run EXCEPT !.pc = "p20"]
  /\ UNCHANGED <<outer, jobs, thumbs, nextThumb, now, file, upl, queue, addSeq,
                 isProcessing, zombies, nTimeouts, hnd, nFaults, nRetry>>

\* processThumbnailJob inside Promise.race; its return ends processJob, its
\* throw enters processJob's catch
Settle(e) ==
  CASE e.pc = "returned" -> [e EXCEPT !.pc = "ack"]
    [] e.pc = "thrown"   -> [e EXCEPT !.pc = "fail2"]
    [] OTHER -> e

RunStep ==
  /\ ProcStep(run)
  /\ run' = Settle(ProcNext(run))
  /\ UNCHANGED <<outer, file, upl, queue, addSeq, isProcessing, zombies, nTimeouts,
                 hnd, nFaults, nRetry>>

\* sharp or FFmpeg rejects: the media step throws
MediaError(e) == "media"

RunMediaFails ==
  /\ run.pc \in MediaPcs
  /\ run' = Throw(run, MediaError(run))
  /\ UNCHANGED <<outer, jobs, thumbs, nextThumb, now, file, upl, queue, addSeq,
                 isProcessing, zombies, nTimeouts, hnd, nFaults, nRetry, bus>>

\* The store rejects the Job.findByIdAndUpdate that follows thumbnail.save():
\* processThumbnailJob goes to its catch block with the store's error
RunStoreFails ==
  /\ run.pc = "wcomp"
  /\ nFaults < MaxStoreFaults
  /\ nFaults' = nFaults + 1
  /\ run' = Throw(run, "store")
  /\ UNCHANGED <<outer, jobs, thumbs, nextThumb, now, file, upl, queue, addSeq,
                 isProcessing, zombies, nTimeouts, hnd, nRetry, bus>>

\* The 5-minute timer wins Promise.race: processJob goes to its catch block
\* with 'Job timeout'; processThumbnailJob is not cancelled and runs on.
JobTimeout ==
  /\ run.pc \in ProcPcs
  /\ nTimeouts < MaxTimeouts
  /\ nTimeouts' = nTimeouts + 1
  /\ zombies' = [zombies EXCEPT ![nTimeouts + 1] = run]
  /\ run' = [run EXCEPT !.pc = "fail2", !.err = "Job timeout"]
  /\ UNCHANGED <<outer, jobs, thumbs, nextThumb, now, file, upl, queue, addSeq,
                 isProcessing, hnd, nFaults, nRetry, bus>>

Ended(e) == IF e.pc \in {"returned", "thrown"} THEN Idle ELSE e

ZombieStep(k) ==
  /\ Alive
  /\ ProcStep(zombies[k])
  /\ zombies' = [zombies EXCEPT ![k] = Ended(ProcNext(zombies[k]))]
  /\ UNCHANGED <<outer, file, upl, queue, addSeq, isProcessing, run, nTimeouts, hnd,
                 nFaults, nRetry>>

ZombieMediaFails(k) ==
  /\ Alive
  /\ zombies[k].pc \in MediaPcs
  /\ zombies' = [zombies EXCEPT ![k] = Throw(@, MediaError(@))]
  /\ UNCHANGED <<outer, jobs, thumbs, nextThumb, now, file, upl, queue, addSeq,
                 isProcessing, run, nTimeouts, hnd, nFaults, nRetry, bus>>

\* A catch block that stores the failure and does not rethrow, so that the
\* attempt counts as done: what JobTimeoutFails must tell apart from
\* ProcessJobCatch
ProcessJobCatchSwallows ==
  /\ run.pc = "fail2"
  /\ jobs' = SetFailed(jobs, run.job, run.err, now)
  /\ now' = now + 1
  /\ run' = [run EXCEPT !.pc = "ack"]
  /\ UNCHANGED <<outer, thumbs, nextThumb, file, upl, queue, addSeq, isProcessing,
                 zombies, nTimeouts, hnd, nFaults, nRetry, bus>>

\* processJob catch: Job.findByIdAndUpdate(jobId, {status: 'failed', error,
\* completedAt}), then rethrow
ProcessJobCatch ==
  /\ run.pc = "fail2"
  /\ jobs' = SetFailed(jobs, run.job, run.err, now)
  /\ now' = now + 1
  /\ run' = [run EXCEPT !.pc = "nack"]
  /\ UNCHANGED <<outer, thumbs, nextThumb, file, upl, queue, addSeq, isProcessing,
                 zombies, nTimeouts, hnd, nFaults, nRetry, bus>>

\* A queue that allows one attempt more than configured (the comparison is
\* off by one): what ExhaustedRetries must tell apart from Nacked
NackedOneMore(q, err) ==
  [q EXCEPT !.attemptsMade = @ + 1,
            !.failedReason = err,
            !.state = IF q.attemptsMade + 1 <= WORKER_MAX_ATTEMPTS
                        THEN "delayed" ELSE "failed"]

\* A queue that gives up at once on a missing input (as an UnrecoverableError
\* would make it): what InputErrorsRetried must tell apart from Nacked
NackedInputTerminal(q, err) ==
  [q EXCEPT !.attemptsMade = @ + 1,
            !.failedReason = err,
            !.state = IF err # "notfound"
                         /\ q.attemptsMade + 1 < WORKER_MAX_ATTEMPTS
                        THEN "delayed" ELSE "failed"]

\* The queue entry after a failed attempt: delayed for another attempt while
\* attempts remain (attempts: CONFIG.WORKER_MAX_ATTEMPTS), failed otherwise
Nacked(q, err) ==
  [q EXCEPT !.attemptsMade = @ + 1,
            !.failedReason = err,
            !.state = IF q.attemptsMade + 1 < WORKER_MAX_ATTEMPTS
                        THEN "delayed" ELSE "failed"]

\* A processor that resets isProcessing only after processJob has returned,
\* not in a finally block: what LockDiscipline must tell apart from Nack
NackKeepsLock ==
  /\ run.pc = "nack"
  /\ queue' = [queue EXCEPT ![run.job] = Nacked(@, run.err)]
  /\ hnd' = IF queue'[run.job].state = "failed"
              THEN [hnd EXCEPT ![run.job].pc = "failed"]
              ELSE hnd
  /\ run' = Idle
  /\ UNCHANGED <<outer, jobs, thumbs, nextThumb, now, file, upl, addSeq, zombies,
                 nTimeouts, nFaults, nRetry, bus, isProcessing>>

\* finally { isProcessing = false }; the processor threw: BullMQ moves the
\* entry to delayed or to failed, and emits 'failed' in the second case
Nack ==
  /\ run.pc = "nack"
  /\ isProcessing' = FALSE
  /\ queue' = [queue EXCEPT ![run.job] = Nacked(@, run.err)]
  /\ hnd' = IF queue'[run.job].state = "failed"
              THEN [hnd EXCEPT ![run.job].pc = "failed"]
              ELSE hnd
  /\ run' = Idle
  /\ UNCHANGED <<outer, jobs, thumbs, nextThumb, now, file, upl, addSeq, zombies,
                 nTimeouts, nFaults, nRetry, bus>>

\* finally { isProcessing = false }; the processor returned: BullMQ moves the
\* entry to completed and emits 'completed'
Ack ==
  /\ run.pc = "ack"
  /\ isProcessing' = FALSE
  /\ queue' = [queue EXCEPT ![run.job].state = "completed"]
  /\ hnd' = [hnd EXCEPT ![run.job].pc = "completed"]
  /\ run' = Idle
  /\ UNCHANGED <<outer, jobs, thumbs, nextThumb, now, file, upl, addSeq, zombies,
                 nTimeouts, nFaults, nRetry, bus>>

\* The backoff delay of a delayed entry elapses
Promote(j) ==
  /\ queue[j].state = "delayed"
  /\ queue' = [queue EXCEPT ![j].state = "waiting"]
  /\ UNCHANGED <<outer, jobs, thumbs, nextThumb, now, file, upl, addSeq, isProcessing,
                 run, zombies, nTimeouts, hnd, nFaults, nRetry, bus>>

\* ------------------------------------------------------ worker shutdown
\* SIGINT or SIGTERM: gracefulShutdown starts `await this.worker.close()`;
\* the worker fetches no further entry
Sigterm ==
  /\ shut = "running"
  /\ shut' = "closing"
  /\ UNCHANGED <<jobs, thumbs, nextThumb, now, file, upl, queue, addSeq,
                 isProcessing, run, zombies, nTimeouts, hnd, nFaults, nRetry,
                 bus, api, socks, inbox,
                 health>>

\* 30 seconds pass while worker.close() waits: gracefulShutdown sets no
\* timer, so no code runs
DrainDeadline ==
  /\ shut = "closing"
  /\ shut' = "overdue"
  /\ UNCHANGED <<jobs, thumbs, nextThumb, now, file, upl, queue, addSeq,
                 isProcessing, run, zombies, nTimeouts, hnd, nFaults, nRetry,
                 bus, api, socks, inbox,
                 health>>

\* worker.close() resolves when the processor is not running; process.exit(0)
WorkerExit ==
  /\ shut \in {"closing", "overdue"}
  /\ run.pc = "idle"
  /\ shut' = "exited"
  /\ UNCHANGED <<jobs, thumbs, nextThumb, now, file, upl, queue, addSeq,
                 isProcessing, run, zombies, nTimeouts, hnd, nFaults, nRetry,
                 bus, api, socks, inbox,
                 health>>

\* --------------------------------------------------- worker health check
\* Five minutes pass, the period of the health check's setInterval
Tick ==
  /\ clock < MaxClock
  /\ clock' = clock + HEALTH_CHECK_MINUTES
  /\ UNCHANGED <<jobs, thumbs, nextThumb, now, file, upl, queue, addSeq,
                 isProcessing, run, zombies, nTimeouts, hnd, nFaults, nRetry,
                 bus, api, shut, socks, inbox, stamp, asked>>

\* The health check's condition on an entry: jobAge = Date.now() - job.timestamp
\* is above 10 minutes
Aged(j) == clock - stamp[j].timestamp > STUCK_MINUTES

\* The interval callback: for each job of thumbnailQueue.getActive() with
\* jobAge above 10 minutes, await job.retry(). BullMQ rejects the retry of an
\* entry that is not failed (the callback's catch logs it): the queue stays
\* as it is.
HealthCheck ==
  /\ Alive
  /\ asked' = asked \cup {j \in Active : Aged(j)}
  /\ UNCHANGED <<jobs, thumbs, nextThumb, now, file, upl, queue, addSeq,
                 isProcessing, run, zombies, nTimeouts, hnd, nFaults, nRetry,
                 bus, api, shut, socks, inbox, clock, stamp>>

\* ------------------------------------------- queue-event handlers (worker)
\* 'completed' listener: Job.findById(jobId).populate('thumbnails').lean();
\* a completed record is published at once, a missing one gets the fallback
\* message with the queue's return value, any other goes on to the forced update
CompletedRead(j) ==
  /\ Alive
  /\ hnd[j].pc = "completed"
  /\ IF jobs[j].exists /\ jobs[j].status # "completed"
       THEN /\ hnd' = [hnd EXCEPT ![j] = [pc |-> "force",
                                          n |-> Len(jobs[j].thumbnails)]]
            /\ bus' = bus
       ELSE /\ hnd' = [hnd EXCEPT ![j].pc = "done"]
            /\ bus' = PubCompleted(bus, j, IF jobs[j].exists
                                             THEN Len(jobs[j].thumbnails)
                                             ELSE 1)
  /\ UNCHANGED <<outer, jobs, thumbs, nextThumb, now, file, upl, queue, addSeq,
                 isProcessing, run, zombies, nTimeouts, nFaults, nRetry>>

\* 'completed' listener: the forced Job.findByIdAndUpdate(jobId, {status:
\* 'completed', progress: 100, completedAt}) and its publish
CompletedForce(j) ==
  /\ Alive
  /\ hnd[j].pc = "force"
  /\ jobs' = ForceCompleted(jobs, j, now)
  /\ now' = now + 1
  /\ bus' = PubCompleted(bus, j, hnd[j].n)
  /\ hnd' = [hnd EXCEPT ![j] = [pc |-> "done", n |-> 0]]
  /\ UNCHANGED <<outer, thumbs, nextThumb, file, upl, queue, addSeq, isProcessing,
                 run, zombies, nTimeouts, nFaults, nRetry>>

\* 'completed' listener: the store throws, the catch block publishes the
\* fallback message
CompletedThrows(j) ==
  /\ Alive
  /\ hnd[j].pc \in {"completed", "force"}
  /\ nFaults < MaxStoreFaults
  /\ nFaults' = nFaults + 1
  /\ bus' = PubCompleted(bus, j, 1)
  /\ hnd' = [hnd EXCEPT ![j] = [pc |-> "done", n |-> 0]]
  /\ UNCHANGED <<outer, jobs, thumbs, nextThumb, now, file, upl, queue, addSeq,
                 isProcessing, run, zombies, nTimeouts, nRetry>>

\* 'failed' listener: Job.findByIdAndUpdate(jobId, {status: 'failed', error:
\* failedReason, completedAt}), then publish job-failed
FailedUpdate(j) ==
  /\ Alive
  /\ hnd[j].pc = "failed"
  /\ jobs' = SetFailed(jobs, j, queue[j].failedReason, now)
  /\ now' = now + 1
  /\ bus' = PubFailed(bus, j)
  /\ hnd' = [hnd EXCEPT ![j].pc = "done"]
  /\ UNCHANGED <<outer, thumbs, nextThumb, file, upl, queue, addSeq, isProcessing,
                 run, zombies, nTimeouts, nFaults, nRetry>>

\* 'failed' listener: the update throws, the catch block publishes job-failed
FailedThrows(j) ==
  /\ Alive
  /\ hnd[j].pc = "failed"
  /\ nFaults < MaxStoreFaults
  /\ nFaults' = nFaults + 1
  /\ bus' = PubFailed(bus, j)
  /\ hnd' = [hnd EXCEPT ![j].pc = "done"]
  /\ UNCHANGED <<outer, jobs, thumbs, nextThumb, now, file, upl, queue, addSeq,
                 isProcessing, run, zombies, nTimeouts, nRetry>>

\* ------------------------------------------------------ user's endpoints
\* DELETE /jobs/:jobId by the owner: Thumbnail.deleteMany({jobId});
\* Job.findByIdAndDelete(jobId). The queue entry is left alone.
DeleteJob(j) ==
  /\ jobs[j].exists
  /\ thumbs' = thumbs \ ThumbsOf(j)
  /\ jobs' = [jobs EXCEPT ![j] = NoJob]
  /\ UNCHANGED <<outer, nextThumb, now, file, upl, queue, addSeq, isProcessing, run,
                 zombies, nTimeouts, hnd, nFaults, nRetry, bus>>

\* POST /jobs/:jobId/retry by the owner, accepted for a failed job: the record
\* is reset and saved; nothing is added to the queue.
RetryJob(j) ==
  /\ jobs[j].exists
  /\ jobs[j].status = "failed"
  /\ nRetry < MaxUserRetries
  /\ nRetry' = nRetry + 1
  /\ jobs' = ResetForRetry(jobs, j)
  /\ UNCHANGED <<outer, thumbs, nextThumb, now, file, upl, queue, addSeq,
                 isProcessing, run, zombies, nTimeouts, hnd, nFaults, bus>>

\* ------------------------------------------- /jobs routes, step by step
\* The authenticated routes on one job, each await a step. One request is
\* served at a time.
ApiOps == {"get", "list", "delete", "retry"}

\* A lookup by _id alone, without the userId of the caller: what
\* OwnershipIsolation must tell apart from Found
FoundAnyUser(u, j) == jobs[j].exists

\* Job.findOne({_id: jobId, userId}) finds a record
Found(u, j) == jobs[j].exists /\ UserOf(j) = u

\* reply.status(r).send(...): the request is over
Reply(a, r) == [a EXCEPT !.pc = "idle", !.resp = r]

\* A request of user u arrives and passes `authenticate`
ApiCall(u, op, j) ==
  /\ api.pc = "idle"
  /\ op = "retry" => nRetry < MaxUserRetries
  /\ api' = [NoRequest EXCEPT !.pc = "find", !.op = op, !.user = u, !.job = j]
  /\ UNCHANGED <<jobs, thumbs, nextThumb, now, file, upl, queue, addSeq,
                 isProcessing, run, zombies, nTimeouts, hnd, nFaults, nRetry,
                 bus, shut, socks, inbox,
                 health>>

\* GET /jobs: Job.find({userId}). The other routes: Job.findOne({_id: jobId,
\* userId}), 404 'Job not found' without a record; GET /jobs/:jobId answers
\* with the record, the retry route answers 400 unless the status is failed.
ApiFind ==
  /\ api.pc = "find"
  /\ api' =
       CASE api.op = "list" ->
              [Reply(api, "200") EXCEPT
                 !.list = {j \in JobIds : Found(api.user, j)}]
         [] ~Found(api.user, api.job) -> Reply(api, "404")
         [] api.op = "get" -> Reply(api, "200")
         [] api.op = "delete" -> [api EXCEPT !.pc = "delThumbs"]
         [] OTHER -> IF jobs[api.job].status # "failed"
                       THEN Reply(api, "400")
                       ELSE [api EXCEPT !.pc = "save"]
  /\ UNCHANGED <<jobs, thumbs, nextThumb, now, file, upl, queue, addSeq,
                 isProcessing, run, zombies, nTimeouts, hnd, nFaults, nRetry,
                 bus, shut, socks, inbox,
                 health>>

\* Retry route: job.status = 'pending'; ...; await job.save() on the document
\* read before; the re-enqueue is commented out. A record deleted in the
\* meantime makes save() throw: 500.
ApiRetrySave ==
  /\ api.pc = "save"
  /\ jobs' = IF jobs[api.job].exists THEN ResetForRetry(jobs, api.job) ELSE jobs
  /\ api' = Reply(api, IF jobs[api.job].exists THEN "200" ELSE "500")
  /\ nRetry' = nRetry + 1
  /\ UNCHANGED <<thumbs, nextThumb, now, file, upl, queue, addSeq,
                 isProcessing, run, zombies, nTimeouts, hnd, nFaults, bus,
                 shut, socks, inbox,
                 health>>

\* Delete route: await Thumbnail.deleteMany({jobId})
ApiDeleteThumbs ==
  /\ api.pc = "delThumbs"
  /\ thumbs' = thumbs \ ThumbsOf(api.job)
  /\ api' = [api EXCEPT !.pc = "delJob"]
  /\ UNCHANGED <<jobs, nextThumb, now, file, upl, queue, addSeq, isProcessing,
                 run, zombies, nTimeouts, hnd, nFaults, nRetry, bus, shut,
                 socks, inbox,
                 health>>

\* Delete route: await Job.findByIdAndDelete(jobId); 200
ApiDeleteJob ==
  /\ api.pc = "delJob"
  /\ jobs' = [jobs EXCEPT ![api.job] = NoJob]
  /\ api' = Reply(api, "200")
  /\ UNCHANGED <<thumbs, nextThumb, now, file, upl, queue, addSeq,
                 isProcessing, run, zombies, nTimeouts, hnd, nFaults, nRetry,
                 bus, shut, socks, inbox,
                 health>>

\* ------------------------------------------------- Socket.IO server
\* io.use verifies the token and sets socket.data.userId; on 'connection' the
\* socket joins `user:${userId}`. (The confirmation emitted to the socket
\* itself carries jobId 'connection', no job.)
Connect(c, u) ==
  /\ socks[c].user = 0
  /\ socks' = [socks EXCEPT ![c] = [user |-> u, rooms |-> {u}]]
  /\ UNCHANGED <<jobs, thumbs, nextThumb, now, file, upl, queue, addSeq,
                 isProcessing, run, zombies, nTimeouts, hnd, nFaults, nRetry,
                 bus, api, shut, inbox,
                 health>>

\* A join-room handler without the check of roomUserId against the socket's
\* user: what FanOutIsolation must tell apart from JoinRoom
JoinRoomAny(c, r) ==
  /\ socks[c].user # 0
  /\ socks' = [socks EXCEPT ![c].rooms = @ \cup {r}]
  /\ UNCHANGED <<jobs, thumbs, nextThumb, now, file, upl, queue, addSeq,
                 isProcessing, run, zombies, nTimeouts, hnd, nFaults, nRetry,
                 bus, api, shut, inbox,
                 health>>

\* socket.on('join-room', roomUserId): if (roomUserId === userId) socket.join
JoinRoom(c, r) ==
  /\ socks[c].user # 0
  /\ socks' = [socks EXCEPT ![c].rooms = IF r = socks[c].user THEN @ \cup {r}
                                                              ELSE @]
  /\ UNCHANGED <<jobs, thumbs, nextThumb, now, file, upl, queue, addSeq,
                 isProcessing, run, zombies, nTimeouts, hnd, nFaults, nRetry,
                 bus, api, shut, inbox,
                 health>>

\* socket.on('leave-room', roomUserId): socket.leave(`user:${roomUserId}`)
LeaveRoom(c, r) ==
  /\ socks[c].user # 0
  /\ socks' = [socks EXCEPT ![c].rooms = @ \ {r}]
  /\ UNCHANGED <<jobs, thumbs, nextThumb, now, file, upl, queue, addSeq,
                 isProcessing, run, zombies, nTimeouts, hnd, nFaults, nRetry,
                 bus, api, shut, inbox,
                 health>>

\* 'disconnect': the socket leaves its rooms and is gone
Disconnect(c) ==
  /\ socks[c].user # 0
  /\ socks' = [socks EXCEPT ![c] = NoSock]
  /\ inbox' = [inbox EXCEPT ![c] = {}]
  /\ UNCHANGED <<jobs, thumbs, nextThumb, now, file, upl, queue, addSeq,
                 isProcessing, run, zombies, nTimeouts, hnd, nFaults, nRetry,
                 bus, api, shut,
                 health>>

\* redisPubSub.on('message'): handleJobCompleted / Failed / Active / Progress
\* read the job and emit the message and its job-status-update to the room
\* `user:${job.userId}`; nothing is emitted for a job that is not found.
Forward(j) ==
  /\ bus[j].last.t # "none"
  /\ jobs[j].exists
  /\ inbox' = [c \in Conns |-> IF UserOf(j) \in socks[c].rooms
                                 THEN inbox[c] \cup {j} ELSE inbox[c]]
  /\ UNCHANGED <<jobs, thumbs, nextThumb, now, file, upl, queue, addSeq,
                 isProcessing, run, zombies, nTimeouts, hnd, nFaults, nRetry,
                 bus, api, shut, socks,
                 health>>

\* ---------------------------------------------------------- specifications
Upload(F) ==
  \E j \in JobIds :
    \/ \E f \in F : CreateJob(j, f)
    \/ GetWaiting(j)
    \/ GetActive(j)
    \/ QueueAdd(j)
    \/ UploadSaveQueued(j)

WorkerOk ==
  \/ \E j \in JobIds : FetchNext(j)
  \/ AcquireLock
  \/ UpdateProgress10
  \/ RunStep
  \/ Ack

WorkerFails ==
  \/ RunMediaFails
  \/ JobTimeout
  \/ \E k \in 1..MaxTimeouts : ZombieStep(k)
  \/ \E k \in 1..MaxTimeouts : ZombieMediaFails(k)
  \/ ProcessJobCatch
  \/ Nack
  \/ \E j \in JobIds : Promote(j)

HandlersOk == \E j \in JobIds : CompletedRead(j) \/ CompletedForce(j)

HandlersFail ==
  \E j \in JobIds : CompletedThrows(j) \/ FailedUpdate(j) \/ FailedThrows(j)

User == \E j \in JobIds : DeleteJob(j) \/ RetryJob(j)

Next ==
  \/ Upload(Files)
  \/ WorkerOk
  \/ WorkerFails
  \/ HandlersOk
  \/ HandlersFail
  \/ User

Spec == Init /\ [][Next]_vars

\* The pipeline with no failed attempt, no timeout and no user request: the
\* "no retries" setting of the FIFO property
InitFifo == InitN(FifoJobs)

NextFifo ==
  \/ Upload(GoodFiles)
  \/ WorkerOk
  \/ HandlersOk

SpecFifo == InitFifo /\ [][NextFifo]_vars

\* The pipeline with the /jobs routes served step by step, for any user
Api ==
  \/ \E u \in Users, op \in ApiOps, j \in JobIds : ApiCall(u, op, j)
  \/ ApiFind
  \/ ApiRetrySave
  \/ ApiDeleteThumbs
  \/ ApiDeleteJob

NextApi ==
  \/ Upload(Files)
  \/ WorkerOk
  \/ WorkerFails
  \/ HandlersOk
  \/ HandlersFail
  \/ Api

SpecApi == Init /\ [][NextApi]_vars

\* The pipeline without failures, with the Socket.IO server and its clients
Sockets ==
  \/ \E c \in Conns, u \in Users : Connect(c, u)
  \/ \E c \in Conns, r \in Users : JoinRoom(c, r)
  \/ \E c \in Conns, r \in Users : LeaveRoom(c, r)
  \/ \E c \in Conns : Disconnect(c)
  \/ \E j \in JobIds : Forward(j)

InitRooms == InitN(RoomJobs)

NextRooms ==
  \/ Upload(GoodFiles)
  \/ WorkerOk
  \/ HandlersOk
  \/ Sockets

SpecRooms == InitRooms /\ [][NextRooms]_vars

\* The pipeline with a worker process that is told to stop
Shutdown ==
  \/ Sigterm
  \/ DrainDeadline
  \/ WorkerExit

NextShutdown ==
  \/ Upload(Files)
  \/ WorkerOk
  \/ WorkerFails
  \/ HandlersOk
  \/ HandlersFail
  \/ Shutdown

SpecShutdown == Init /\ [][NextShutdown]_vars

\* The pipeline with a store that can reject the worker's update of the Job
NextStore ==
  \/ Next
  \/ RunStoreFails

SpecStore == Init /\ [][NextStore]_vars

\* The pipeline with the event loop's fairness to the processor waiting for
\* the FIFO lock: its 2-second timer fires and the loop condition is read again
SpecLock == Init /\ [][Next]_vars /\ WF_vars(AcquireLock)

\* The pipeline without failures, with wall-clock time and the health check
NextHealth ==
  \/ Upload(GoodFiles)
  \/ WorkerOk
  \/ HandlersOk
  \/ Tick
  \/ HealthCheck

SpecHealth == Init /\ [][NextHealth]_vars

\* ------------------------------------------------------------------ claims
Terminal == {"completed", "failed"}

\* Nothing is left to run for job j: its upload request has returned, its
\* queue entry is finished, its event handler is done and no execution of
\* processThumbnailJob for it is alive.
Settled(j) ==
  /\ upl[j].pc = "done"
  /\ queue[j].state \in {"completed", "failed"}
  /\ hnd[j].pc = "done"
  /\ run.job # j
  /\ \A k \in 1..MaxTimeouts : zombies[k].job # j

\* C1 -- Terminal reachability: a job that was created and enqueued ends with
\* status completed or failed. Stated on the runs' ends: once nothing is left
\* to run for the job, its record (if it still exists) is terminal.
TerminalReachability ==
  \A j \in JobIds :
    Settled(j) /\ jobs[j].exists => jobs[j].status \in Terminal

\* The edges of the status DAG and the retry reset failed -> pending
StatusEdges ==
  { <<"pending", "queued">>, <<"queued", "processing">>,
    <<"processing", "completed">>, <<"processing", "failed">>,
    <<"pending", "failed">>, <<"queued", "failed">>, <<"failed", "pending">> }

\* C2 -- Transition legality: every change of Job.status is an edge of the
\* status DAG, or the retry reset failed -> pending.
TransitionLegality ==
  [][ \A j \in JobIds :
        (jobs[j].exists /\ jobs'[j].exists
           /\ jobs'[j].status # jobs[j].status)
        => <<jobs[j].status, jobs'[j].status>> \in StatusEdges ]_vars

\* C3 -- In every reachable state a job's thumbnails list is non-empty iff
\* its status is completed.
ThumbnailsIffCompleted ==
  \A j \in JobIds :
    jobs[j].exists =>
      (Len(jobs[j].thumbnails) > 0 <=> jobs[j].status = "completed")

\* C4 -- In every reachable state a job's error is non-empty iff its status
\* is failed.
ErrorIffFailed ==
  \A j \in JobIds :
    jobs[j].exists => (jobs[j].error # "" <=> jobs[j].status = "failed")

\* addThumbnailJob has added job j's entry to the queue
Added(j) == queue[j].state # "none"

\* C5 -- FIFO at concurrency 1: of two jobs added to the queue in the order
\* A, B, A becomes active and finishes before B becomes active, and
\* A.completedAt <= B.startedAt.
FifoOrder ==
  \A a, b \in JobIds :
    (Added(a) /\ Added(b) /\ queue[a].seq < queue[b].seq) =>
      /\ queue[b].state \in {"active", "completed"}
           => queue[a].state = "completed"
      /\ (jobs[a].exists /\ jobs[b].exists /\ jobs[b].startedAt # 0)
           => /\ jobs[a].completedAt # 0
              /\ jobs[a].completedAt <= jobs[b].startedAt

\* C6 -- Retry recovery: a job whose first attempt failed and whose second
\* attempt succeeded ends with status completed, no error, exactly one
\* Thumbnail record and one entry in its thumbnails list.
RetryRecovery ==
  \A j \in JobIds :
    (Settled(j) /\ jobs[j].exists
       /\ queue[j].state = "completed" /\ queue[j].attemptsMade = 1)
    => /\ jobs[j].status = "completed"
       /\ jobs[j].error = ""
       /\ Cardinality(ThumbsOf(j)) = 1
       /\ Len(jobs[j].thumbnails) = 1

InputErrorsTerminal ==
  \A j \in JobIds :
    queue[j].failedReason = "notfound"
      => (queue[j].state = "failed" /\ queue[j].attemptsMade = 1)

\* C8 (amended) -- An attempt that fails because the input file does not
\* exist is retried like any other failure: the entry is scheduled again
\* after the first and the second such failure and becomes failed only with
\* the third.
InputErrorsRetried ==
  \A j \in JobIds :
    queue[j].failedReason = "notfound" =>
      /\ queue[j].attemptsMade \in 1..WORKER_MAX_ATTEMPTS
      /\ queue[j].attemptsMade < WORKER_MAX_ATTEMPTS
           => queue[j].state \in {"delayed", "waiting", "active"}
      /\ queue[j].attemptsMade = WORKER_MAX_ATTEMPTS
           => queue[j].state = "failed"

\* C8 witness: after an attempt failed on the missing input, the next attempt
\* is running
InputErrorsRetriedWitness ==
  \E j \in JobIds :
    /\ queue[j].failedReason = "notfound"
    /\ queue[j].attemptsMade = 1
    /\ queue[j].state = "active"
    /\ ~file[j].onDisk

\* C9 -- At-least-once event visibility, on the runs' ends: once nothing is
\* left to run for a job, a record with status completed has had a
\* job-completed message published, and a record left failed by a failed
\* queue entry has had a job-failed message published.
EventVisibility ==
  \A j \in JobIds :
    (Settled(j) /\ jobs[j].exists) =>
      /\ jobs[j].status = "completed" => bus[j].completed >= 1
      /\ (jobs[j].status = "failed" /\ queue[j].state = "failed")
           => bus[j].failed >= 1

\* C10 -- Progress monotonicity per attempt: a job-progress message that
\* follows a job-progress message for the same jobId (no job-active,
\* job-completed or job-failed in between) carries a progress at least as
\* large.
ProgressMonotone ==
  [][ \A j \in JobIds :
        (bus[j].last.t = "progress" /\ bus'[j].last.t = "progress")
        => bus'[j].last.p >= bus[j].last.p ]_vars

\* C11 -- User retry re-enqueues: when the retry endpoint has reset a failed
\* job, a queue entry for that jobId is waiting, delayed or active again, so
\* that the job will be processed again.
RetryReenqueues ==
  [][ \A j \in JobIds :
        (nRetry' = nRetry + 1 /\ jobs[j].exists
           /\ jobs[j].status = "failed" /\ jobs'[j].status = "pending")
        => queue'[j].state \in {"waiting", "delayed", "active"} ]_vars

\* C12 -- ResetForRetry precondition: the retry request succeeds only on a
\* job whose current status is failed, and then leaves it pending with
\* progress 0 and error, startedAt and completedAt cleared; any other answer
\* leaves the Job collection as it was.
RetryPrecondition ==
  [][ (api.op = "retry" /\ api.pc # "idle" /\ api'.pc = "idle")
      => IF api'.resp = "200"
           THEN /\ jobs[api.job].exists
                /\ jobs[api.job].status = "failed"
                /\ jobs' = ResetForRetry(jobs, api.job)
           ELSE jobs' = jobs ]_vars

\* C13 -- Delete cascades: once a job's record has been deleted, no Thumbnail
\* record with its jobId exists, then and in every later state.
DeleteCascades ==
  \A j \in JobIds :
    (upl[j].pc # "idle" /\ ~jobs[j].exists) => ThumbsOf(j) = {}

\* C14 -- Event fan-out isolation: a connection authenticated as user U is in
\* no room but `user:U` and has received messages only about jobs whose
\* userId is U.
FanOutIsolation ==
  \A c \in Conns :
    /\ socks[c].rooms \subseteq {socks[c].user}
    /\ \A j \in inbox[c] : UserOf(j) = socks[c].user

\* C14 witness: two users are connected, a message about a job of the first
\* has been forwarded, and only the first user's connection has received it
FanOutIsolationWitness ==
  \E c, d \in Conns, j \in JobIds :
    /\ socks[c].user = UserOf(j) /\ j \in inbox[c]
    /\ socks[d].user \notin {0, UserOf(j)} /\ socks[d].rooms # {}
    /\ j \notin inbox[d]

\* C15 -- Job ownership isolation: GET, DELETE and retry on a jobId by a user
\* who is not the job's owner are answered 404 'Job not found' and leave the
\* Job and Thumbnail collections and the queue unchanged; GET /jobs returns
\* only jobs whose userId is the caller.
OwnershipIsolation ==
  [][ /\ (api.pc # "idle" /\ api' # api /\ api.op # "list"
            /\ api.user # UserOf(api.job))
         => /\ api'.pc = "idle" /\ api'.resp = "404"
            /\ UNCHANGED <<jobs, thumbs, queue>>
      /\ (api.pc # "idle" /\ api' # api /\ api.op = "list")
         => /\ api'.pc = "idle" /\ api'.resp = "200"
            /\ api'.list \subseteq {j \in JobIds : UserOf(j) = api.user}
            /\ UNCHANGED <<jobs, thumbs, queue>> ]_vars

\* C15 witness: a retry by another user than the owner of a failed job has
\* been answered 404 and the job is still failed
OwnershipIsolationWitness ==
  /\ api.pc = "idle" /\ api.op = "retry" /\ api.resp = "404"
  /\ api.user # UserOf(api.job)
  /\ jobs[api.job].exists /\ jobs[api.job].status = "failed"

\* C16 -- Happy image path: for an image job that succeeds on its first
\* attempt the messages published for its jobId are, in order, exactly
\* active, progress(10), progress(40), progress(80), progress(100) and
\* completed carrying one thumbnail URL.
HappyImagePath ==
  [][ \A j \in JobIds :
        bus'[j] # bus[j] =>
          LET a == bus[j].last
              b == bus'[j].last
          IN  \/ a.t = "none" /\ b.t = "active"
              \/ a.t = "active" /\ b.t = "progress" /\ b.p = 10
              \/ /\ a.t = "progress" /\ b.t = "progress"
                 /\ <<a.p, b.p>> \in {<<10, 40>>, <<40, 80>>, <<80, 100>>}
              \/ /\ a.t = "progress" /\ a.p = 100
                 /\ b.t = "completed" /\ b.n = 1 ]_vars

\* C17 -- Job timeout: when the 5-minute timer fires during an attempt, the
\* attempt goes to processJob's catch block with the error "Job timeout"; the
\* catch block sets the record (if it exists) to failed with exactly that
\* error and rethrows, and the queue entry is failed with that reason: an
\* attempt is counted and the entry is delayed for a retry while attempts
\* remain, failed otherwise.
JobTimeoutFails ==
  [][ /\ nTimeouts' # nTimeouts
         => (run'.pc = "fail2" /\ run'.err = "Job timeout"
               /\ run'.job = run.job)
      /\ (run.pc = "fail2" /\ run.err = "Job timeout" /\ run' # run)
         => /\ run'.pc = "nack" /\ run'.err = "Job timeout"
            /\ jobs[run.job].exists
                 => /\ jobs'[run.job].status = "failed"
                    /\ jobs'[run.job].error = "Job timeout"
      /\ (run.pc = "nack" /\ run.err = "Job timeout" /\ run' # run)
         => LET q == queue[run.job]
                r == queue'[run.job]
            IN  /\ r.attemptsMade = q.attemptsMade + 1
                /\ r.failedReason = "Job timeout"
                /\ r.state = IF r.attemptsMade < WORKER_MAX_ATTEMPTS
                               THEN "delayed" ELSE "failed" ]_vars

\* C17 witness: the first attempt was cut off by the timer; the record is
\* failed with "Job timeout" and the entry waits for its retry
JobTimeoutFailsWitness ==
  \E j \in JobIds :
    /\ queue[j].state = "delayed" /\ queue[j].attemptsMade = 1
    /\ queue[j].failedReason = "Job timeout"
    /\ jobs[j].exists /\ jobs[j].status = "failed"
    /\ jobs[j].error = "Job timeout"

\* C18 -- Graceful shutdown: after the signal the worker makes no queue entry
\* active; once the 30 s drain deadline has passed no entry is active any
\* more (a job still in flight has been failed back to the queue), and none
\* is active when the process has exited.
GracefulShutdown ==
  /\ [][ shut # "running"
         => \A j \in JobIds :
              queue'[j].state = "active" => queue[j].state = "active" ]_vars
  /\ [](shut \in {"overdue", "exited"}
         => \A j \in JobIds : queue[j].state # "active")

\* C19 -- Terminal stability: once a job record's status is completed or
\* failed, no step other than the retry reset or the deletion of the job
\* changes any of its fields.
TerminalStability ==
  [][ \A j \in JobIds :
        (jobs[j].exists /\ jobs[j].status \in Terminal
           /\ jobs'[j].exists /\ nRetry' = nRetry)
        => jobs'[j] = jobs[j] ]_vars

\* C20 -- Per-job event order: the messages published for one jobId follow
\* active, progress*, then at most one completed or failed: job-active comes
\* first or after the active/progress messages of an attempt that is retried,
\* job-progress and the closing job-completed or job-failed come after
\* job-active or job-progress, and nothing is published for the job after its
\* job-completed or job-failed.
EventOrder ==
  [][ \A j \in JobIds :
        bus'[j] # bus[j]
        => /\ bus'[j].last.t = "active"
                => bus[j].last.t \in {"none", "active", "progress"}
           /\ bus'[j].last.t \in {"progress", "completed", "failed"}
                => bus[j].last.t \in {"active", "progress"} ]_vars

\* C21 -- Store before event: when job-completed is published for a job whose
\* record exists, the record has status completed; when job-failed is
\* published for a job whose record exists, the record has status failed and
\* a non-empty error.
StoreBeforeEvent ==
  [][ \A j \in JobIds :
        /\ (bus'[j].completed # bus[j].completed /\ jobs'[j].exists)
             => jobs'[j].status = "completed"
        /\ (bus'[j].failed # bus[j].failed /\ jobs'[j].exists)
             => (jobs'[j].status = "failed" /\ jobs'[j].error # "") ]_vars

\* C22 -- startedAt <= completedAt in every state in which a job record has
\* both fields set (0 stands for an unset date).
StartedBeforeCompleted ==
  \A j \in JobIds :
    (jobs[j].exists /\ jobs[j].startedAt # 0 /\ jobs[j].completedAt # 0)
    => jobs[j].startedAt <= jobs[j].completedAt

\* C23 -- startedAt is stamped once: a startedAt that is set is not replaced
\* by another date; the only change of a set startedAt is the retry reset
\* (or the deletion of the job) clearing it.
StartedAtOnce ==
  [][ \A j \in JobIds :
        (jobs[j].exists /\ jobs[j].startedAt # 0 /\ jobs'[j].exists
           /\ jobs'[j].startedAt # jobs[j].startedAt)
        => (jobs'[j].startedAt = 0 /\ nRetry' = nRetry + 1) ]_vars

\* C24 -- Completed implies full progress: a job record with status completed
\* has progress 100 and completedAt set, whether processThumbnailJob or the
\* 'completed' listener wrote the status.
CompletedFullProgress ==
  \A j \in JobIds :
    (jobs[j].exists /\ jobs[j].status = "completed")
    => (jobs[j].progress = 100 /\ jobs[j].completedAt # 0)

\* C24 witness: a first attempt with no timer fired and no retry; the record
\* is completed and its completedAt is the second date read after startedAt,
\* that is, processThumbnailJob wrote completed and the 'completed' listener
\* then forced the status again
CompletedFullProgressWitness ==
  \E j \in JobIds :
    /\ jobs[j].exists /\ jobs[j].status = "completed"
    /\ jobs[j].progress = 100
    /\ jobs[j].completedAt = jobs[j].startedAt + 2
    /\ nTimeouts = 0 /\ nRetry = 0 /\ queue[j].attemptsMade = 0
    /\ hnd[j].pc = "done" /\ bus[j].completed = 1

\* C25 -- Processing before progress: whenever a job-progress message is
\* published for a job whose record exists, the record has status processing
\* and a startedAt.
ProcessingBeforeProgress ==
  [][ \A j \in JobIds :
        (bus'[j] # bus[j] /\ bus'[j].last.t = "progress" /\ jobs'[j].exists)
        => (jobs'[j].status = "processing" /\ jobs'[j].startedAt # 0) ]_vars

\* The ids in job j's thumbnails list, and the ids of the Thumbnail records
\* with jobId j
ListedThumbs(j) == {jobs[j].thumbnails[i] : i \in 1..Len(jobs[j].thumbnails)}
StoredThumbs(j) == {t.id : t \in ThumbsOf(j)}

\* An execution of processThumbnailJob for job j has saved its Thumbnail and
\* not yet updated the job
MidSuccess(j) ==
  \/ run.job = j /\ run.pc = "wcomp"
  \/ \E k \in 1..MaxTimeouts : zombies[k].job = j /\ zombies[k].pc = "wcomp"

\* C26 -- AppendThumbnail consistency: whenever no execution for job j is
\* between the save of its Thumbnail and the update of the job, the Thumbnail
\* records with jobId j are exactly those whose ids are in j's thumbnails
\* list.
AppendThumbnailConsistency ==
  \A j \in JobIds :
    (jobs[j].exists /\ ~MidSuccess(j)) => StoredThumbs(j) = ListedThumbs(j)

\* C27 -- Queued is written only from pending: a step that makes a job's
\* status queued starts from status pending.
QueuedOnlyFromPending ==
  [][ \A j \in JobIds :
        (jobs[j].exists /\ jobs'[j].exists
           /\ jobs'[j].status = "queued" /\ jobs[j].status # "queued")
        => jobs[j].status = "pending" ]_vars

HardTimeout ==
  /\ [][ (zombies' # zombies /\ nTimeouts' = nTimeouts)
         => (jobs' = jobs /\ thumbs' = thumbs /\ bus' = bus) ]_vars
  /\ [](\A k \in 1..MaxTimeouts :
          ~(zombies[k].pc \in ProcPcs /\ run.pc \in ProcPcs
              /\ run.job = zombies[k].job))

\* C30 -- Stuck-job health check: the health check calls job.retry() only
\* for an entry that is active and became active more than 10 minutes ago.
HealthCheckOnlyStuck ==
  [][ \A j \in asked' \ asked :
        /\ queue[j].state = "active"
        /\ clock - stamp[j].processedOn > STUCK_MINUTES ]_vars

====
